---- MODULE Spec2Model ----
(***************************************************************************)
(* express-mongodb-auth: the registration server of src/index.js with the  *)
(* User model of src/models/User.js.                                        *)
(*                                                                          *)
(* One Node.js process: the start-up script (connect, routes, listen), the  *)
(* two asynchronous outcomes of mongoose.connect, the listen callback, the  *)
(* GET / handler and, per POST /register request, the steps of the async    *)
(* handler between its suspension points: construct + save() called,        *)
(* validation, bcrypt.genSalt, bcrypt.hash, the insert into the store and   *)
(* the response.                                                            *)
(*                                                                          *)
(* Strings are sequences of character codes; a JavaScript value is a tagged *)
(* record so that `undefined` (a field left out of the body) is a value of  *)
(* its own.  bcrypt is modelled symbolically: the digest is the text        *)
(* "$2a$" cost "$" salt followed by the hashed text, so that it is          *)
(* determined by (text, salt) and distinct inputs give distinct digests;    *)
(* genSalt draws a salt that was never drawn before (a 128-bit random       *)
(* value, collisions idealised away); neither call fails on the validated *)
(* text it is given.                                                       *)
(***************************************************************************)
EXTENDS Integers, Sequences, FiniteSets, TLC

\* ------------------------------------------------------------------ bounds
\* Number of POST /register requests the clients send.
MaxReqs == 2

ReqIds == 1..MaxReqs

\* ------------------------------------------------------- program constants
Rounds == 10
StatusOK == 200
StatusError == 500

\* ------------------------------------------------------------- JS values
Undefined == [t |-> "undefined", s |-> << >>]
Str(chars) == [t |-> "string", s |-> chars]

Hello == "Hello, World!"
ErrorBody == [error |-> "Failed to save user"]
NoBody == [none |-> TRUE]

\* ---------------------------------------------------------------- bcrypt
\* "$2a$" ++ two decimal digits of the cost ++ "$"
BcryptPrefix == <<36, 50, 97, 36, 48 + (Rounds \div 10), 48 + (Rounds % 10), 36>>

\* bcrypt.hash(plainTextPassword, salt): the digest text embeds cost and salt.
BcryptHash(plain, salt) == Str(BcryptPrefix \o <<salt>> \o plain.s)

\* ------------------------------------------------------- request inputs
NameJen == Str(<<74, 101, 110>>)
EmailA == Str(<<97, 64, 120>>)
EmailB == Str(<<98, 64, 120>>)
Secret == Str(<<112, 119, 49>>)
\* a text that looks like a digest the server returned earlier
DigestLike == BcryptHash(Secret, 1)

Body(n, e, p) == [name |-> n, email |-> e, password |-> p]

\* bodies that pass validation
ValidBodies == {Body(NameJen, EmailA, Secret), Body(NameJen, EmailB, Secret),
                Body(NameJen, EmailA, DigestLike)}
\* bodies with one field left out, or sent as the empty text
InvalidBodies == {Body(Undefined, EmailA, Secret), Body(NameJen, Undefined, Secret),
                  Body(NameJen, EmailA, Undefined), Body(Str(<< >>), EmailB, Secret),
                  Body(NameJen, Str(<< >>), Secret), Body(NameJen, EmailB, Str(<< >>))}
Bodies == ValidBodies \cup InvalidBodies

VARIABLES
  pcMain,     \* position of the start-up script
  alive,      \* the process has not exited
  conn,       \* mongoose connection: "none", "pending", "open", "failed"
  listening,  \* the HTTP server is bound and accepts requests
  log,        \* what was written to the console
  rootResp,   \* the last response of GET /
  store,      \* the users collection
  reqs,       \* the POST /register requests
  nextSalt    \* next salt bcrypt.genSalt draws

vars == <<pcMain, alive, conn, listening, log, rootResp, store, reqs, nextSalt>>

\* ----------------------------------------------------------- User schema
\* { type: String, required: true }: undefined and the empty text fail.
RequiredOk(v) == v.t = "string" /\ Len(v.s) > 0

\* Mutant: `required` left off the name.
SchemaValidNameOptional(doc) == RequiredOk(doc.email) /\ RequiredOk(doc.password)

\* userSchema: name, email and password are required.
SchemaValid(doc) == RequiredOk(doc.name) /\ RequiredOk(doc.email) /\ RequiredOk(doc.password)

\* Mutant: the schema without `unique: true` on email.
UniqueOkNoIndex(st, doc) == TRUE

\* email: { unique: true }: the unique index of the collection.
UniqueOk(st, doc) == \A d \in st : d.email # doc.email

NoDoc == [id |-> 0, name |-> Undefined, email |-> Undefined, password |-> Undefined]

NewReq == [pc |-> "new", body |-> [name |-> Undefined, email |-> Undefined, password |-> Undefined],
           user |-> NoDoc, salt |-> 0, hashes |-> 0, saves |-> 0, writes |-> 0,
           err |-> "none", responses |-> 0, status |-> 0, resBody |-> NoBody,
           freshAtStart |-> FALSE]

Init ==
  /\ pcMain = "start"
  /\ alive = TRUE
  /\ conn = "none"
  /\ listening = FALSE
  /\ log = {}
  /\ rootResp = [status |-> 0, text |-> ""]
  /\ store = {}
  /\ reqs = [r \in ReqIds |-> NewReq]
  /\ nextSalt = 1

\* ------------------------------------------------------------- start-up
\* index.js top level, run synchronously: mongoose.connect is called (its
\* promise settles later), the routes are registered, app.listen is called.
MainScript ==
  /\ alive /\ pcMain = "start"
  /\ pcMain' = "running"
  /\ conn' = "pending"
  /\ UNCHANGED <<alive, listening, log, rootResp, store, reqs, nextSalt>>

\* .then(() => console.log('Connected to MongoDB'))
ConnectOk ==
  /\ alive /\ conn = "pending"
  /\ conn' = "open"
  /\ log' = log \cup {"Connected to MongoDB"}
  /\ UNCHANGED <<pcMain, alive, listening, rootResp, store, reqs, nextSalt>>

\* Mutant: no catch on the connect promise; the unhandled rejection ends the process.
OnConnectErrorExit ==
  /\ log' = log
  /\ alive' = FALSE

\* .catch((error) => console.error('Error connecting to MongoDB:', error))
OnConnectError ==
  /\ log' = log \cup {"Error connecting to MongoDB"}
  /\ alive' = alive

\* The connection attempt fails (ATLAS_URL absent or invalid, store unreachable).
ConnectFail ==
  /\ alive /\ conn = "pending"
  /\ conn' = "failed"
  /\ OnConnectError
  /\ UNCHANGED <<pcMain, listening, rootResp, store, reqs, nextSalt>>

\* app.listen(port, () => console.log(`Server is running ...`))
ListenReady ==
  /\ alive /\ pcMain = "running" /\ ~listening
  /\ listening' = TRUE
  /\ log' = log \cup {"Server is running"}
  /\ UNCHANGED <<pcMain, alive, conn, rootResp, store, reqs, nextSalt>>

\* app.get('/', (req, res) => res.send('Hello, World!'))
GetRoot ==
  /\ alive /\ listening
  /\ rootResp' = [status |-> StatusOK, text |-> Hello]
  /\ UNCHANGED <<pcMain, alive, conn, listening, log, store, reqs, nextSalt>>

\* ------------------------------------------------------- POST /register
\* Mutant: name and email swapped when the document is built.
NewUserSwapped(data, id) == [id |-> id, name |-> data.email, email |-> data.name, password |-> data.password]

\* new User({name: data.name, email: data.email, password: data.password});
\* the document gets its _id when it is constructed.
NewUser(data, id) == [id |-> id, name |-> data.name, email |-> data.email, password |-> data.password]

\* The ObjectId generated for the document of request r: one per document.
ObjectId(r) == r

\* The handler up to its first suspension point: body read, document
\* constructed, user.save() called.
Receive(r, data) ==
  /\ alive /\ listening /\ reqs[r].pc = "new"
  /\ reqs' = [reqs EXCEPT ![r] = [@ EXCEPT !.pc = "validate", !.body = data,
                                            !.user = NewUser(data, ObjectId(r)),
                                            !.saves = @ + 1,
                                            !.freshAtStart = \A d \in store : d.email # data.email]]
  /\ UNCHANGED <<pcMain, alive, conn, listening, log, rootResp, store, nextSalt>>

\* save() validates the document before the pre('save') hooks of the schema run.
Validate(r) ==
  /\ alive /\ reqs[r].pc = "validate"
  /\ reqs' = [reqs EXCEPT ![r] = IF SchemaValid(@.user)
                                   THEN [@ EXCEPT !.pc = "genSalt"]
                                   ELSE [@ EXCEPT !.pc = "caught", !.err = "ValidationError"]]
  /\ UNCHANGED <<pcMain, alive, conn, listening, log, rootResp, store, nextSalt>>

\* const salt = await bcrypt.genSalt(10): a salt never drawn before.
GenSalt == nextSalt

\* Mutant: the salt is not drawn anew, every save uses the same one.
PreSaveGenSaltReused(r) ==
  /\ alive /\ reqs[r].pc = "genSalt"
  /\ reqs' = [reqs EXCEPT ![r] = [@ EXCEPT !.pc = "hash", !.salt = GenSalt]]
  /\ UNCHANGED <<pcMain, alive, conn, listening, log, rootResp, store, nextSalt>>

\* pre('save'), first await
PreSaveGenSalt(r) ==
  /\ alive /\ reqs[r].pc = "genSalt"
  /\ reqs' = [reqs EXCEPT ![r] = [@ EXCEPT !.pc = "hash", !.salt = GenSalt]]
  /\ nextSalt' = nextSalt + 1
  /\ UNCHANGED <<pcMain, alive, conn, listening, log, rootResp, store>>

\* Mutant: the hook computes the digest and never assigns it to this.password.
HashedUserNotAssigned(user, salt) == user

\* plainTextPassword = this.password; this.password = await bcrypt.hash(..., salt); next()
HashedUser(user, salt) == [user EXCEPT !.password = BcryptHash(user.password, salt)]

\* Mutant: the hook hashes the password it has just hashed.
PreSaveHashTwice(r) ==
  /\ alive /\ reqs[r].pc = "hash"
  /\ reqs' = [reqs EXCEPT ![r] = [@ EXCEPT !.pc = "insert",
                                            !.user = HashedUser(HashedUser(@, reqs[r].salt), reqs[r].salt),
                                            !.hashes = @ + 2]]
  /\ UNCHANGED <<pcMain, alive, conn, listening, log, rootResp, store, nextSalt>>

\* pre('save'), second await, then next()
PreSaveHash(r) ==
  /\ alive /\ reqs[r].pc = "hash"
  /\ reqs' = [reqs EXCEPT ![r] = [@ EXCEPT !.pc = "insert",
                                            !.user = HashedUser(@, reqs[r].salt),
                                            !.hashes = @ + 1]]
  /\ UNCHANGED <<pcMain, alive, conn, listening, log, rootResp, store, nextSalt>>

\* The stored document: the saved fields and the version key.
StoredDoc(user) == [id |-> user.id, name |-> user.name, email |-> user.email,
                    password |-> user.password, version |-> 0]

\* Mutant: the write replaces the document that holds the email (an upsert).
InsertOneUpsert(st, user) ==
  [store |-> {d \in st : d.email # user.email} \cup {StoredDoc(user)}, err |-> "none"]

\* The store's answer to the insert of `user`: the collection after it and
\* the error, "none" when the document was inserted.
InsertOne(st, user) ==
  IF UniqueOk(st, user)
  THEN [store |-> st \cup {StoredDoc(user)}, err |-> "none"]
  ELSE [store |-> st, err |-> "DuplicateKeyError"]

\* The insert reaches the store over the open connection.
Insert(r) ==
  /\ alive /\ reqs[r].pc = "insert" /\ conn = "open"
  /\ LET res == InsertOne(store, reqs[r].user) IN
       /\ store' = res.store
       /\ reqs' = [reqs EXCEPT ![r] = [@ EXCEPT !.pc = IF res.err = "none" THEN "saved" ELSE "caught",
                                                 !.err = res.err,
                                                 !.writes = @ + 1]]
  /\ UNCHANGED <<pcMain, alive, conn, listening, log, rootResp, nextSalt>>

\* The insert is sent and fails on the network: nothing is stored.
InsertNetworkError(r) ==
  /\ alive /\ reqs[r].pc = "insert" /\ conn = "open"
  /\ reqs' = [reqs EXCEPT ![r] = [@ EXCEPT !.pc = "caught", !.err = "ConnectivityError",
                                            !.writes = @ + 1]]
  /\ UNCHANGED <<pcMain, alive, conn, listening, log, rootResp, store, nextSalt>>

\* No open connection: mongoose buffers the insert and rejects it when the
\* buffering times out; nothing is sent to the store.
InsertBufferTimeout(r) ==
  /\ alive /\ reqs[r].pc = "insert" /\ conn # "open"
  /\ reqs' = [reqs EXCEPT ![r] = [@ EXCEPT !.pc = "caught", !.err = "ConnectivityError"]]
  /\ UNCHANGED <<pcMain, alive, conn, listening, log, rootResp, store, nextSalt>>

\* console.log(savedUser); res.json(savedUser)
RespondSaved(r) ==
  /\ alive /\ reqs[r].pc = "saved"
  /\ reqs' = [reqs EXCEPT ![r] = [@ EXCEPT !.pc = "done", !.responses = @ + 1,
                                            !.status = StatusOK,
                                            !.resBody = StoredDoc(reqs[r].user)]]
  /\ log' = log \cup {"savedUser"}
  /\ UNCHANGED <<pcMain, alive, conn, listening, rootResp, store, nextSalt>>

\* Mutant: the catch block answers a validation error with 400 and its own text.
RespondCaughtByKind(r) ==
  /\ alive /\ reqs[r].pc = "caught"
  /\ reqs' = [reqs EXCEPT ![r] = [@ EXCEPT !.pc = "done", !.responses = @ + 1,
                                            !.status = IF reqs[r].err = "ValidationError"
                                                       THEN 400 ELSE StatusError,
                                            !.resBody = IF reqs[r].err = "ValidationError"
                                                        THEN [error |-> "ValidationError"]
                                                        ELSE ErrorBody]]
  /\ log' = log \cup {reqs[r].err}
  /\ UNCHANGED <<pcMain, alive, conn, listening, rootResp, store, nextSalt>>

\* Mutant: the catch block answers and then saves the document again.
RespondCaughtRetry(r) ==
  /\ alive /\ reqs[r].pc = "caught"
  /\ reqs' = [reqs EXCEPT ![r] = [@ EXCEPT !.pc = IF reqs[r].saves < 2 THEN "validate" ELSE "done",
                                            !.responses = @ + 1,
                                            !.saves = IF reqs[r].saves < 2 THEN @ + 1 ELSE @,
                                            !.status = StatusError,
                                            !.resBody = ErrorBody]]
  /\ log' = log \cup {reqs[r].err}
  /\ UNCHANGED <<pcMain, alive, conn, listening, rootResp, store, nextSalt>>

\* catch (e) { console.error(e); res.status(500).json({ error: 'Failed to save user' }) }
RespondCaught(r) ==
  /\ alive /\ reqs[r].pc = "caught"
  /\ reqs' = [reqs EXCEPT ![r] = [@ EXCEPT !.pc = "done", !.responses = @ + 1,
                                            !.status = StatusError,
                                            !.resBody = ErrorBody]]
  /\ log' = log \cup {reqs[r].err}
  /\ UNCHANGED <<pcMain, alive, conn, listening, rootResp, store, nextSalt>>

Next ==
  \/ MainScript
  \/ ConnectOk
  \/ ConnectFail
  \/ ListenReady
  \/ GetRoot
  \/ \E r \in ReqIds : \E data \in Bodies : Receive(r, data)
  \/ \E r \in ReqIds : Validate(r)
  \/ \E r \in ReqIds : PreSaveGenSalt(r)
  \/ \E r \in ReqIds : PreSaveHash(r)
  \/ \E r \in ReqIds : Insert(r)
  \/ \E r \in ReqIds : InsertNetworkError(r)
  \/ \E r \in ReqIds : InsertBufferTimeout(r)
  \/ \E r \in ReqIds : RespondSaved(r)
  \/ \E r \in ReqIds : RespondCaught(r)

Spec == Init /\ [][Next]_vars

\* One step of the handler of request r, after it was received.
HandlerStep(r) ==
  \/ Validate(r)
  \/ PreSaveGenSalt(r)
  \/ PreSaveHash(r)
  \/ Insert(r)
  \/ InsertNetworkError(r)
  \/ InsertBufferTimeout(r)
  \/ RespondSaved(r)
  \/ RespondCaught(r)

\* ------------------------------------------------------------ vocabulary
Started(r) == reqs[r].pc # "new"
Done(r) == reqs[r].pc = "done"
InFlight(r) == Started(r) /\ ~Done(r)
Succeeded(r) == reqs[r].pc = "saved" \/ (Done(r) /\ reqs[r].status = StatusOK)
Omits(data) == data.name = Undefined \/ data.email = Undefined \/ data.password = Undefined
Creators(d) == {r \in ReqIds : Started(r) /\ reqs[r].user.id = d.id}
\* request r changed in this step
Stepped(r) == reqs'[r] # reqs[r]

\* ------------------------------------------------------------------- C1
\* C1: every document in the store holds, as its password, the digest the
\* hasher produced from the plain text of the request that created it (under
\* the salt drawn for that request), and never that plain text itself.
C1_StoredPasswordIsDigest ==
  \A d \in store :
    /\ Creators(d) # {}
    /\ \A r \in Creators(d) :
         /\ reqs[r].hashes > 0
         /\ d.password = BcryptHash(reqs[r].body.password, reqs[r].salt)
         /\ d.password # reqs[r].body.password

\* Two documents are stored, one of them created from a plain text that
\* itself looks like a digest.
C1_Witness ==
  /\ Cardinality(store) = 2
  /\ \E d \in store : \E r \in Creators(d) : reqs[r].body.password = DigestLike

\* ------------------------------------------------------------------- C2
\* C2: of the requests that carry the same email at most one succeeds, and
\* the store never holds two documents with the same email.
C2_AtMostOnePerEmail ==
  /\ \A d1, d2 \in store : d1.email = d2.email => d1 = d2
  /\ \A r1, r2 \in ReqIds :
       (r1 # r2 /\ Succeeded(r1) /\ Succeeded(r2))
         => reqs[r1].body.email # reqs[r2].body.email

\* Two requests with the same email, both sent while the email was not in
\* the store, have raced: one succeeded and the other failed on the index.
C2_Witness ==
  \E r1, r2 \in ReqIds :
    /\ r1 # r2
    /\ reqs[r1].body.email = reqs[r2].body.email
    /\ reqs[r1].freshAtStart /\ reqs[r2].freshAtStart
    /\ Done(r1) /\ reqs[r1].status = StatusOK
    /\ Done(r2) /\ reqs[r2].err = "DuplicateKeyError"

\* ------------------------------------------------------------------- C3
\* C3: a request sent with an email that a stored document already has never
\* changes the store, ends with status 500 and the body
\* {"error":"Failed to save user"}, and no step of the program changes or
\* removes a stored document.
C3_DuplicateEmailRejected ==
  [][ /\ store \subseteq store'
      /\ \A r \in ReqIds :
           (Stepped(r) /\ ~reqs'[r].freshAtStart)
             => /\ store' = store
                /\ reqs'[r].pc # "saved"
                /\ reqs'[r].pc = "done"
                     => /\ reqs'[r].status = StatusError
                        /\ reqs'[r].resBody = ErrorBody ]_vars

\* A well-formed request whose email was stored already has been answered
\* after the store refused its insert.
C3_Witness ==
  \E r \in ReqIds :
    /\ Done(r) /\ ~reqs[r].freshAtStart
    /\ reqs[r].err = "DuplicateKeyError"
    /\ \E d \in store : d.email = reqs[r].body.email /\ d.id # reqs[r].user.id

\* ------------------------------------------------------------------- C4
\* C4: a request that leaves out name, email or password fails validation
\* before the hook runs and before any write is sent: none of its steps
\* changes the store, and it ends in the ValidationError.
C4_MissingFieldNoWrite ==
  [][ \A r \in ReqIds :
        (Stepped(r) /\ Omits(reqs'[r].body))
          => /\ store' = store
             /\ reqs'[r].writes = 0
             /\ reqs'[r].hashes = 0
             /\ reqs'[r].pc \in {"validate", "caught", "done"}
             /\ reqs'[r].pc # "validate" => reqs'[r].err = "ValidationError" ]_vars

\* A request without a name has been answered while a document is stored.
C4_Witness ==
  \E r \in ReqIds :
    /\ Done(r) /\ reqs[r].body.name = Undefined
    /\ reqs[r].err = "ValidationError"
    /\ store # {}

\* ------------------------------------------------------------------- C5
\* C5 as stated: every answered request with non-empty name, email and
\* password whose email was not in the store when it was sent got 200 and
\* the stored user.
C5_FreshAtStartSucceeds ==
  \A r \in ReqIds :
    (Done(r) /\ SchemaValid(reqs[r].body) /\ reqs[r].freshAtStart)
      => /\ reqs[r].status = StatusOK
         /\ reqs[r].resBody \in store

\* C5 amended: a request with non-empty name, email and password never fails
\* before its write; when the write reaches the store without a connectivity
\* failure and no stored document has the email at that moment, that step
\* adds exactly one document, and the request is then answered 200 with the
\* stored user: name and email as sent, a password different from the plain
\* text, and the id generated for the document.
C5_FreshAtWriteSucceeds ==
  [][ \A r \in ReqIds :
        (Stepped(r) /\ SchemaValid(reqs'[r].body))
          => /\ reqs'[r].pc = "caught" => reqs[r].pc = "insert"
             /\ (/\ reqs[r].pc = "insert" /\ conn = "open"
                 /\ UniqueOk(store, reqs[r].user)
                 /\ reqs'[r].err # "ConnectivityError")
                  => /\ reqs'[r].pc = "saved"
                     /\ store' = store \cup {StoredDoc(reqs[r].user)}
                     /\ Cardinality(store') = Cardinality(store) + 1
             /\ store' # store => reqs'[r].pc = "saved"
             /\ reqs[r].pc = "saved"
                  => /\ reqs'[r].pc = "done"
                     /\ reqs'[r].status = StatusOK
                     /\ reqs'[r].resBody \in store
                     /\ reqs'[r].resBody.name = reqs[r].body.name
                     /\ reqs'[r].resBody.email = reqs[r].body.email
                     /\ reqs'[r].resBody.password # reqs[r].body.password
                     /\ reqs'[r].resBody.id = ObjectId(r)
                     /\ \A q \in ReqIds : q # r => reqs[q].user.id # ObjectId(r) ]_vars

\* A request has been answered 200 with its stored user.
C5_Witness ==
  \E r \in ReqIds :
    /\ Done(r) /\ reqs[r].status = StatusOK
    /\ reqs[r].resBody \in store
    /\ reqs[r].resBody.name = NameJen /\ reqs[r].resBody.email = EmailB

C7_ConnectFailureOnlyLogged ==
  conn = "failed"
    => /\ alive
       /\ "Error connecting to MongoDB" \in log
       /\ listening \/ ENABLED ListenReady
       /\ listening => ENABLED GetRoot
       /\ rootResp.status # 0 => rootResp = [status |-> StatusOK, text |-> Hello]
       /\ store = {}
       /\ \A r \in ReqIds :
            /\ InFlight(r) => ENABLED HandlerStep(r)
            /\ reqs[r].pc # "saved"
            /\ Done(r) => /\ reqs[r].status = StatusError
                          /\ reqs[r].resBody = ErrorBody

\* The connection failed, the server listens and has served GET /, and a
\* well-formed registration was answered 500.
C7_Witness ==
  /\ conn = "failed" /\ listening
  /\ rootResp.status = StatusOK
  /\ \E r \in ReqIds :
       /\ Done(r) /\ SchemaValid(reqs[r].body)
       /\ reqs[r].err = "ConnectivityError" /\ reqs[r].status = StatusError

\* ------------------------------------------------------------------- C8
\* How far the handler of a request has got.
PcRank(pc) ==
  CASE pc = "new" -> 0
    [] pc = "validate" -> 1
    [] pc = "genSalt" -> 2
    [] pc = "hash" -> 3
    [] pc = "insert" -> 4
    [] pc \in {"saved", "caught"} -> 5
    [] pc = "done" -> 6

\* C8: a request calls save() once and sends at most one write; it has no
\* response before it is done and exactly one from then on, either 200 with
\* the stored user or 500 with the fixed error body; and it cannot stay
\* unanswered: while it is in flight a step of its handler is always
\* possible, and every step takes it strictly closer to the response.
C8_OneAttemptOneResponse ==
  /\ [](\A r \in ReqIds :
          /\ reqs[r].saves <= 1 /\ reqs[r].writes <= 1 /\ reqs[r].responses <= 1
          /\ Started(r) => reqs[r].saves = 1
          /\ Done(r) <=> reqs[r].responses = 1
          /\ Done(r) => \/ /\ reqs[r].status = StatusOK /\ reqs[r].err = "none"
                           /\ reqs[r].resBody \in store
                        \/ /\ reqs[r].status = StatusError /\ reqs[r].err # "none"
                           /\ reqs[r].resBody = ErrorBody
          /\ InFlight(r) => ENABLED HandlerStep(r))
  /\ [][\A r \in ReqIds : Stepped(r) => PcRank(reqs'[r].pc) > PcRank(reqs[r].pc)]_vars

\* One request ended in Success and another in Failure.
C8_Witness ==
  \E r1, r2 \in ReqIds :
    /\ Done(r1) /\ reqs[r1].status = StatusOK
    /\ Done(r2) /\ reqs[r2].status = StatusError

\* ------------------------------------------------------------------- C9
\* C9: the hook hashes the password of a document once: before the hook has
\* run nothing is written, and from the moment the write can be sent the
\* document holds the digest of the submitted plain text, hashed one time.
C9_HashedOnceBeforeWrite ==
  \A r \in ReqIds :
    /\ reqs[r].hashes <= 1
    /\ reqs[r].pc \in {"validate", "genSalt", "hash"}
         => reqs[r].hashes = 0 /\ reqs[r].writes = 0
    /\ (reqs[r].writes > 0 \/ reqs[r].pc \in {"insert", "saved"})
         => /\ reqs[r].hashes = 1
            /\ reqs[r].user.password = BcryptHash(reqs[r].body.password, reqs[r].salt)
            /\ reqs[r].user.password # reqs[r].body.password

\* A plain text that looks like a digest was hashed once and written.
C9_Witness ==
  \E r \in ReqIds :
    /\ reqs[r].writes = 1 /\ reqs[r].hashes = 1
    /\ reqs[r].body.password = DigestLike
    /\ StoredDoc(reqs[r].user) \in store

\* ------------------------------------------------------------------ C10
\* C10: two documents hashed from the same plain text hold different
\* digests, in the handlers and in the store.
C10_SamePlainDifferentDigest ==
  \A r1, r2 \in ReqIds :
    (r1 # r2 /\ reqs[r1].hashes > 0 /\ reqs[r2].hashes > 0
       /\ reqs[r1].body.password = reqs[r2].body.password)
      => /\ reqs[r1].salt # reqs[r2].salt
         /\ reqs[r1].user.password # reqs[r2].user.password

\* Two registrations with the same plain text are both stored.
C10_Witness ==
  \E r1, r2 \in ReqIds :
    /\ r1 # r2
    /\ reqs[r1].body.password = reqs[r2].body.password
    /\ StoredDoc(reqs[r1].user) \in store
    /\ StoredDoc(reqs[r2].user) \in store

====
